---- MODULE Spec2Model ----
(***************************************************************************)
(* A model of the ray tracer's rendering pipeline:                         *)
(*   - RayTracer.cpp: trace / tracePixel / traceRay, loadScene, the        *)
(*     image driver (traceSetup, traceImage, aaImage and their worker      *)
(*     threads, checkRender, waitRender, getPixel, setPixel);              *)
(*   - scene/kdTree.h: the KD-tree build and traversal.                    *)
(*                                                                         *)
(* Colours are fixed-point: the double 1.0 is the integer One, so that     *)
(* 255.0 * c is (ByteMax * c) / One and a byte b read back by getPixel,    *)
(* b / 255.0, is exactly b * (One \div ByteMax).                           *)
(***************************************************************************)
EXTENDS Integers, Sequences, FiniteSets, TLC

----------------------------------------------------------------------------
(* Bounds of the model. *)

MaxPixels == 4
MaxThreads == 2
MaxPasses == 2
MaxTraceDepth == 2
MaxLoads == 3
MaxObjs == 2
MaxDepthLimit == 2
MaxLeafSize == 1
MaxBuildDepth == 5

(* 255.0 in tracePixel, setPixel and getPixel. *)
ByteMax == 255

One == ByteMax * 10

Chan == 1..3

Black == <<0, 0, 0>>
White == <<One, One, One>>

Max2(a, b) == IF a >= b THEN a ELSE b
Min2(a, b) == IF a <= b THEN a ELSE b
Abs(a) == IF a < 0 THEN -a ELSE a

VAdd(a, b) == [c \in Chan |-> a[c] + b[c]]
(* glm's component-wise product of two dvec3, in fixed point. *)
VMul(a, b) == [c \in Chan |-> (a[c] * b[c]) \div One]
(* glm::clamp(ret, 0.0, 1.0) *)
ClampColour(a) == [c \in Chan |-> Max2(0, Min2(One, a[c]))]

----------------------------------------------------------------------------
(* The scene as the tracer sees it: what scene->intersect, the material    *)
(* queries and the cube map answer for each ray, and which primary ray     *)
(* the camera sends through a window coordinate.  Secondary rays are the   *)
(* rays reflTo / refrTo of the surface that spawns them.                   *)

Miss(cube) ==
    [hit |-> FALSE, t |-> 0, shade |-> Black, refl |-> FALSE, kr |-> Black,
     reflTo |-> 1, trans |-> FALSE, kt |-> Black, kPos |-> FALSE,
     refrTo |-> 1, cube |-> cube]

Matte(shade, t) ==
    [hit |-> TRUE, t |-> t, shade |-> shade, refl |-> FALSE, kr |-> Black,
     reflTo |-> 1, trans |-> FALSE, kt |-> Black, kPos |-> FALSE,
     refrTo |-> 1, cube |-> Black]

Mirror(shade, t, kr, to) ==
    [hit |-> TRUE, t |-> t, shade |-> shade, refl |-> TRUE, kr |-> kr,
     reflTo |-> to, trans |-> FALSE, kt |-> Black, kPos |-> FALSE,
     refrTo |-> 1, cube |-> Black]

Glass(shade, t, kr, reflTo, kt, kPos, refrTo) ==
    [hit |-> TRUE, t |-> t, shade |-> shade, refl |-> kr # Black, kr |-> kr,
     reflTo |-> reflTo, trans |-> TRUE, kt |-> kt, kPos |-> kPos,
     refrTo |-> refrTo, cube |-> Black]

Grey(k) == <<k, k, k>>
Half == Grey(One \div 2)

(* A setup is a loaded scene together with the TraceUI settings the tracer *)
(* reads: getDepth(), getThreshold(), getSuperSamples(), getAaThreshold()  *)
(* and cubeMap().                                                          *)
Setups ==
    << \* a dark band between two white surfaces, no recursion
       [rays |-> << Matte(White, 5), Miss(Black), Matte(White, 7) >>,
        cam |-> "x", depth |-> 0, T |-> 0, samples |-> 1,
        aaThresh |-> One \div 2, cubeMap |-> FALSE],
       \* two facing mirrors and a matte surface whose shade needs clamping
       [rays |-> << Mirror(Grey(500), 3, Half, 3),
                    Matte(<<1275, 2546, 3000>>, 4),
                    Mirror(<<0, 200, 0>>, 6, Half, 1) >>,
        cam |-> "y", depth |-> 2, T |-> One \div 4, samples |-> 2,
        aaThresh |-> One \div 10, cubeMap |-> FALSE],
       \* glass in front of a cube map; ray 3 is totally internally reflected
       [rays |-> << Glass(Grey(100), 2, Half, 2, Half, TRUE, 3),
                    Miss(<<0, 0, One>>),
                    Glass(Grey(300), 8, Black, 1, White, FALSE, 2) >>,
        cam |-> "x", depth |-> 1, T |-> 0, samples |-> 0,
        aaThresh |-> 0, cubeMap |-> TRUE],
       \* a threshold above the weight (1,1,1) of a primary ray
       [rays |-> << Matte(White, 5), Miss(<<One, 0, 0>>), Mirror(Half, 7, White, 1) >>,
        cam |-> "y", depth |-> 0, T |-> One + 1, samples |-> 1,
        aaThresh |-> One \div 2, cubeMap |-> TRUE] >>

SetupIds == DOMAIN Setups
RayIds == 1..3

(* Camera::rayThrough(x, y, r) for the window coordinate x = xn/xd,        *)
(* y = yn/yd: which of the scene's primary rays it is.                     *)
RayThrough(S, xn, xd, yn, yd) ==
    LET n == IF S.cam = "x" THEN xn ELSE yn
        d == IF S.cam = "x" THEN xd ELSE yd
    IN  IF n < 0 THEN 1 ELSE IF 2 * n < d THEN 2 ELSE 3

----------------------------------------------------------------------------
(* RayTracer::traceRay.  The result carries the colour and the out         *)
(* parameter t, and three measurements of the call: levels, the deepest    *)
(* nesting of traceRay activations it reached (itself included);           *)
(* ilevels, the same counting only activations that got as far as          *)
(* scene->intersect; isects, the number of scene->intersect calls made.    *)

(* A faulty depthExhausted:    the recursion stops one level later. *)
depthExhaustedLate(depth) == depth < -1

(* if (depth < 0) return glm::dvec3(0.0, 0.0, 0.0); *)
depthExhausted(depth) == depth < 0

(* thresh[0] < T && thresh[1] < T && thresh[2] < T *)
belowThreshold(S, thresh) ==
    thresh[1] < S.T /\ thresh[2] < S.T /\ thresh[3] < S.T

NoCall(t) == [color |-> Black, t |-> t, levels |-> 0, ilevels |-> 0, isects |-> 0]

RECURSIVE traceRay(_, _, _, _, _)
traceRay(S, r, thresh, depth, t) ==
    IF depthExhausted(depth)
    THEN [color |-> Black, t |-> t, levels |-> 1, ilevels |-> 0, isects |-> 0]
    ELSE IF belowThreshold(S, thresh)
    THEN [color |-> Black, t |-> t, levels |-> 1, ilevels |-> 0, isects |-> 0]
    ELSE LET m == S.rays[r] IN
      IF m.hit
      THEN LET doRefl == m.refl
               rl == IF doRefl
                     THEN traceRay(S, m.reflTo, VMul(m.kr, thresh), depth - 1, m.t)
                     ELSE NoCall(m.t)
               c1 == IF doRefl THEN VAdd(m.shade, VMul(m.kr, rl.color)) ELSE m.shade
               doRefr == m.trans /\ m.kPos
               rr == IF doRefr
                     THEN traceRay(S, m.refrTo, VMul(m.kt, thresh), depth - 1, rl.t)
                     ELSE NoCall(rl.t)
               c2 == IF doRefr THEN VAdd(c1, VMul(m.kt, rr.color)) ELSE c1
           IN  [color |-> c2, t |-> rr.t,
                levels |-> 1 + Max2(rl.levels, rr.levels),
                ilevels |-> 1 + Max2(rl.ilevels, rr.ilevels),
                isects |-> 1 + rl.isects + rr.isects]
      ELSE [color |-> IF S.cubeMap THEN m.cube ELSE Black, t |-> t,
            levels |-> 1, ilevels |-> 1, isects |-> 1]

(* RayTracer::trace(x, y) *)
trace(S, xn, xd, yn, yd) ==
    ClampColour(traceRay(S, RayThrough(S, xn, xd, yn, yd), White, S.depth, 0).color)

----------------------------------------------------------------------------
(* The state of the program. *)

VARIABLES
    scene,            \* RayTracer::scene: NoScene (nullptr) or the loaded setup
    alerts,           \* the messages sent to traceUI->alert, in order
    loadRet,          \* the last loadScene call: [ret, outcome, calls]
    ui,               \* the window size and TraceUI's thread count: [w, h, threads]
    buffer,           \* RayTracer::buffer, byte offset -> byte
    buffer_width, buffer_height,
    threads, samples, aaThresh,   \* the members traceSetup copies from TraceUI
    bufferReady,      \* m_bBufferReady
    allThreads,       \* the worker handles, with each worker's position
    finishedThreads,  \* the set of ids of workers that ran to their end
    ctl,              \* the controlling (UI) thread: [pc, i, ret]; ret is what
                      \* its last checkRender / waitRender call returned
                      \* since the last pass was started
    passes,           \* number of traceImage / aaImage calls so far
    gh,               \* history of the current pass (see NewPass)
    tr,               \* a single traceRay call (TraceSpec)
    kd                \* a KD-tree build and a traversal (KdSpec)

driverVars == <<ui, buffer, buffer_width, buffer_height, threads, samples,
                aaThresh, bufferReady, allThreads, finishedThreads, ctl,
                passes, gh>>
loadVars == <<alerts, loadRet>>
vars == <<scene, alerts, loadRet, ui, buffer, buffer_width, buffer_height,
          threads, samples, aaThresh, bufferReady, allThreads,
          finishedThreads, ctl, passes, gh, tr, kd>>

NoScene == 0
sceneLoaded == scene # NoScene

----------------------------------------------------------------------------
(* Pixels and bytes. *)

(* The pixel a worker derives from its index p (traceImageThread and       *)
(* aaImageThread: i = p / buffer_height, j = p % buffer_height).           *)
PixelI(p, h) == p \div h
PixelJ(p, h) == p % h

(* A faulty PixelOffset:    column-major, the row and column exchanged. *)
PixelOffsetSwapped(i, j, w) == (j + i * w) * 3

(* buffer.data() + (i + j * buffer_width) * 3 *)
PixelOffset(i, j, w) == (i + j * w) * 3

(* A faulty QuantByte:    rounds to the nearest byte instead of truncating. *)
QuantByteNearest(num, den) ==
    ((2 * ByteMax * num + One * den) \div (2 * One * den)) % 256

(* pixel[c] = (int)(255.0 * col[c]) for the colour component num/den (in   *)
(* units of One): the cast truncates toward zero, the store into an        *)
(* unsigned char keeps the low 8 bits.                                     *)
QuantByte(num, den) ==
    LET x == ByteMax * num
        d == One * den
        q == IF x >= 0 THEN x \div d ELSE -((-x) \div d)
    IN  q % 256

(* The three stores pixel[0], pixel[1], pixel[2] for a colour col/den. *)
PixelBytes(col, den) == [c \in Chan |-> QuantByte(col[c], den)]

InBuffer(buf, off) == off >= 0 /\ off + 2 < Len(buf)

(* The buffer is a sequence; the byte at offset k is buf[k + 1]. *)
StoreBytes(buf, off, bytes) ==
    [k \in DOMAIN buf |->
        IF k - 1 >= off /\ k - 1 <= off + 2 THEN bytes[k - off] ELSE buf[k]]

(* RayTracer::getPixel(i, j): each byte / 255.0 *)
getPixel(buf, i, j, w) ==
    LET off == PixelOffset(i, j, w)
    IN  [c \in Chan |-> buf[off + c] * (One \div ByteMax)]

----------------------------------------------------------------------------
(* History of the current pass, kept for stating properties: how often     *)
(* each pixel (byte offset / 3) was stored to and by which worker ids,     *)
(* the colour handed to the last store, whether a store fell outside       *)
(* the buffer, and the buffer as the pass found it.                        *)

NoCol == [col |-> Black, den |-> 0]

NewPass(kind, buf, npix) ==
    [kind |-> kind,
     writes |-> [q \in 0..(npix - 1) |-> 0],
     writers |-> [q \in 0..(npix - 1) |-> {}],
     lastCol |-> [q \in 0..(npix - 1) |-> NoCol],
     oob |-> FALSE,
     start |-> buf]

Stored(g, buf, off, col, den, id) ==
    LET q == off \div 3 IN
    IF InBuffer(buf, off) /\ off % 3 = 0 /\ q \in DOMAIN g.writes
    THEN [g EXCEPT !.writes[q] = @ + 1,
                   !.writers[q] = @ \cup {id},
                   !.lastCol[q] = [col |-> col, den |-> den]]
    ELSE [g EXCEPT !.oob = TRUE]

----------------------------------------------------------------------------
(* The image driver. *)

Worker(kind, id, w, h) ==
    [kind |-> kind, id |-> id, w |-> w, h |-> h, p |-> id, st |-> "run",
     joined |-> FALSE]

Handles == DOMAIN allThreads
Live(k) == allThreads[k].st = "run"
NoLive == \A k \in Handles : ~Live(k)

(* for (int t = 0; t < threads; ++t) allThreads.push_back(thread(...)) *)
Spawn(kind, n, w, h) == [t \in 1..n |-> Worker(kind, t - 1, w, h)]

(* RayTracer::traceSetup followed by the spawning loop of traceImage.      *)
(* The UI starts a pass only on a loaded scene and when no worker of an    *)
(* earlier pass is still running (traceSetup resizes and clears the        *)
(* buffer and, with the KD switch on, dereferences the scene).             *)
traceImage ==
    /\ ctl.pc = "idle"
    /\ sceneLoaded
    /\ NoLive
    /\ passes < MaxPasses
    /\ LET w == ui.w
           h == ui.h
           buf == [k \in 1..(w * h * 3) |-> 0]
       IN  /\ buffer' = buf
           /\ buffer_width' = w
           /\ buffer_height' = h
           /\ bufferReady' = TRUE
           /\ threads' = ui.threads
           /\ samples' = Setups[scene].samples
           /\ aaThresh' = Setups[scene].aaThresh
           /\ allThreads' = allThreads \o Spawn("trace", ui.threads, w, h)
           /\ gh' = NewPass("trace", buf, w * h)
    /\ passes' = passes + 1
    /\ ctl' = [ctl EXCEPT !.ret = "none"]
    /\ UNCHANGED <<scene, alerts, loadRet, ui, finishedThreads, tr, kd>>

(* RayTracer::aaImage *)
aaImage ==
    /\ ctl.pc = "idle"
    /\ sceneLoaded
    /\ bufferReady
    /\ NoLive
    /\ passes < MaxPasses
    /\ IF samples > 0
       THEN /\ allThreads' = allThreads
                   \o Spawn("aa", threads, buffer_width, buffer_height)
            /\ gh' = NewPass("aa", buffer, buffer_width * buffer_height)
       ELSE UNCHANGED <<allThreads, gh>>
    /\ passes' = passes + 1
    /\ ctl' = [ctl EXCEPT !.ret = "none"]
    /\ UNCHANGED <<scene, alerts, loadRet, ui, buffer, buffer_width,
                   buffer_height, threads, samples, aaThresh, bufferReady,
                   finishedThreads, tr, kd>>

(* One iteration of traceImageThread's loop: tracePixel(i, j). *)
tracePixelStep(k) ==
    LET wk == allThreads[k]
        i == PixelI(wk.p, buffer_height)
        j == PixelJ(wk.p, buffer_height)
        col == trace(Setups[scene], i, buffer_width, j, buffer_height)
        off == PixelOffset(i, j, buffer_width)
    IN  /\ wk.kind = "trace"
        /\ wk.st = "run"
        /\ wk.p < wk.w * wk.h
        /\ IF sceneLoaded
           THEN /\ buffer' = StoreBytes(buffer, off, PixelBytes(col, 1))
                /\ gh' = Stored(gh, buffer, off, col, 1, wk.id)
           ELSE UNCHANGED <<buffer, gh>>
        /\ allThreads' = [allThreads EXCEPT ![k].p = @ + threads]
        /\ UNCHANGED <<scene, alerts, loadRet, ui, buffer_width, buffer_height,
                       threads, samples, aaThresh, bufferReady,
                       finishedThreads, ctl, passes, tr, kd>>

(* The edge test of aaImageThread: some in-bounds neighbour differs from   *)
(* the pixel by more than aaThresh in some channel.                        *)
onBoundary(buf, i, j) ==
    LET color == getPixel(buf, i, j, buffer_width)
    IN  \E a \in -1..1, b \in -1..1 :
           /\ ~(i + a < 0 \/ i + a >= buffer_width)
           /\ ~(a = 0 /\ b = 0)
           /\ ~(j + b < 0 \/ j + b >= buffer_height)
           /\ LET nb == getPixel(buf, i + a, j + b, buffer_width)
              IN  \E c \in Chan : Abs(nb[c] - color[c]) > aaThresh

(* The sum of trace over the samples x samples grid of pixel (i, j):       *)
(* x_sample = (i - .5) / w + a / (w * samples), and the same for y.        *)
RECURSIVE sampleSum(_, _, _, _)
sampleSum(S, i, j, n) ==
    IF n = 0 THEN Black
    ELSE LET a == (n - 1) \div samples
             b == (n - 1) % samples
             xn == samples * (2 * i - 1) + 2 * a
             xd == 2 * buffer_width * samples
             yn == samples * (2 * j - 1) + 2 * b
             yd == 2 * buffer_height * samples
         IN  VAdd(sampleSum(S, i, j, n - 1), trace(S, xn, xd, yn, yd))

(* The body of aaImageThread's loop for index p, as a change of the       *)
(* buffer: an edge pixel is resampled and stored by setPixel.              *)
aaPixel(buf, p) ==
    LET i == PixelI(p, buffer_height)
        j == PixelJ(p, buffer_height)
        totalSamples == samples * samples
        newColor == sampleSum(Setups[scene], i, j, totalSamples)
    IN  IF onBoundary(buf, i, j)
        THEN StoreBytes(buf, PixelOffset(i, j, buffer_width),
                        PixelBytes(newColor, totalSamples))
        ELSE buf

(* One iteration of aaImageThread's loop. *)
aaPixelStep(k) ==
    LET wk == allThreads[k]
        i == PixelI(wk.p, buffer_height)
        j == PixelJ(wk.p, buffer_height)
        totalSamples == samples * samples
        newColor == sampleSum(Setups[scene], i, j, totalSamples)
        off == PixelOffset(i, j, buffer_width)
    IN  /\ wk.kind = "aa"
        /\ wk.st = "run"
        /\ wk.p < wk.w * wk.h
        /\ buffer' = aaPixel(buffer, wk.p)
        /\ IF onBoundary(buffer, i, j)
           THEN gh' = Stored(gh, buffer, off, newColor, totalSamples, wk.id)
           ELSE UNCHANGED gh
        /\ allThreads' = [allThreads EXCEPT ![k].p = @ + threads]
        /\ UNCHANGED <<scene, alerts, loadRet, ui, buffer_width, buffer_height,
                       threads, samples, aaThresh, bufferReady,
                       finishedThreads, ctl, passes, tr, kd>>

(* The end of traceImageThread / aaImageThread: the loop is over,          *)
(* finishedThreads.insert(id), and the thread exits.                       *)
workerFinish(k) ==
    LET wk == allThreads[k]
    IN  /\ wk.st = "run"
        /\ ~(wk.p < wk.w * wk.h)
        /\ finishedThreads' = finishedThreads \cup {wk.id}
        /\ allThreads' = [allThreads EXCEPT ![k].st = "done"]
        /\ UNCHANGED <<scene, alerts, loadRet, ui, buffer, buffer_width,
                       buffer_height, threads, samples, aaThresh, bufferReady,
                       ctl, passes, gh, tr, kd>>

(* A faulty checkLoopCond:    the loop stops one id short. *)
checkLoopCondShort(i) == i < threads - 1

(* A faulty checkLoopCond:    the loop runs one id too far. *)
checkLoopCondLong(i) == i <= threads

(* RayTracer::checkRender, one step per loop iteration. *)
checkLoopCond(i) == i < threads

checkRenderCall ==
    /\ ctl.pc = "idle"
    /\ ctl' = [pc |-> "check", i |-> 0, ret |-> "none"]
    /\ UNCHANGED <<scene, alerts, loadRet, ui, buffer, buffer_width,
                   buffer_height, threads, samples, aaThresh, bufferReady,
                   allThreads, finishedThreads, passes, gh, tr, kd>>

checkRenderLoop ==
    /\ ctl.pc = "check"
    /\ checkLoopCond(ctl.i)
    /\ IF ctl.i \notin finishedThreads
       THEN ctl' = [pc |-> "idle", i |-> 0, ret |-> "false"]
       ELSE ctl' = [ctl EXCEPT !.i = @ + 1]
    /\ UNCHANGED <<scene, alerts, loadRet, ui, buffer, buffer_width,
                   buffer_height, threads, samples, aaThresh, bufferReady,
                   allThreads, finishedThreads, passes, gh, tr, kd>>

checkRenderDone ==
    /\ ctl.pc = "check"
    /\ ~checkLoopCond(ctl.i)
    /\ finishedThreads' = {}
    /\ ctl' = [pc |-> "idle", i |-> 0, ret |-> "true"]
    /\ UNCHANGED <<scene, alerts, loadRet, ui, buffer, buffer_width,
                   buffer_height, threads, samples, aaThresh, bufferReady,
                   allThreads, passes, gh, tr, kd>>

(* RayTracer::waitRender: join the handles in order, then clear the set. *)
waitRenderCall ==
    /\ ctl.pc = "idle"
    /\ ctl' = [pc |-> "wait", i |-> 1, ret |-> "none"]
    /\ UNCHANGED <<scene, alerts, loadRet, ui, buffer, buffer_width,
                   buffer_height, threads, samples, aaThresh, bufferReady,
                   allThreads, finishedThreads, passes, gh, tr, kd>>

(* A faulty joinReturns:    the join does not wait for the thread. *)
joinReturnsAtOnce(k) == TRUE

(* if (th.joinable()) th.join(): the join returns once the thread exited. *)
joinReturns(k) == allThreads[k].st = "done"

waitRenderJoin ==
    /\ ctl.pc = "wait"
    /\ ctl.i \in Handles
    /\ IF ~allThreads[ctl.i].joined
       THEN /\ joinReturns(ctl.i)
            /\ allThreads' = [allThreads EXCEPT ![ctl.i].joined = TRUE]
       ELSE UNCHANGED allThreads
    /\ ctl' = [ctl EXCEPT !.i = @ + 1]
    /\ UNCHANGED <<scene, alerts, loadRet, ui, buffer, buffer_width,
                   buffer_height, threads, samples, aaThresh, bufferReady,
                   finishedThreads, passes, gh, tr, kd>>

waitRenderDone ==
    /\ ctl.pc = "wait"
    /\ ctl.i \notin Handles
    /\ finishedThreads' = {}
    /\ ctl' = [pc |-> "idle", i |-> 0, ret |-> "waited"]
    /\ UNCHANGED <<scene, alerts, loadRet, ui, buffer, buffer_width,
                   buffer_height, threads, samples, aaThresh, bufferReady,
                   allThreads, passes, gh, tr, kd>>

(* The state after construction and a successful loadScene.  threads has   *)
(* no initialiser in the constructor: any value.                           *)
IdleTr == [phase |-> "idle"]
IdleKd == [phase |-> "idle"]

Init ==
    /\ scene \in SetupIds
    /\ alerts = <<>>
    /\ loadRet = [ret |-> "true", outcome |-> "parsed", calls |-> 1]
    /\ ui \in {u \in [w : 1..MaxPixels, h : 1..MaxPixels,
                      threads : 1..MaxThreads] :
                   u.w * u.h <= MaxPixels}
    /\ buffer = <<>>
    /\ buffer_width = 0
    /\ buffer_height = 0
    /\ threads \in 0..MaxThreads
    /\ samples = 0
    /\ aaThresh = 0
    /\ bufferReady = FALSE
    /\ allThreads = <<>>
    /\ finishedThreads = {}
    /\ ctl = [pc |-> "idle", i |-> 0, ret |-> "none"]
    /\ passes = 0
    /\ gh = NewPass("none", <<>>, 0)
    /\ tr = IdleTr
    /\ kd = IdleKd

Next ==
    \/ traceImage
    \/ aaImage
    \/ \E k \in Handles : tracePixelStep(k)
    \/ \E k \in Handles : aaPixelStep(k)
    \/ \E k \in Handles : workerFinish(k)
    \/ checkRenderCall
    \/ checkRenderLoop
    \/ checkRenderDone
    \/ waitRenderCall
    \/ waitRenderJoin
    \/ waitRenderDone

Spec == Init /\ [][Next]_vars

----------------------------------------------------------------------------
(* Properties of the image driver (specification Spec). *)

PassPixels == DOMAIN gh.writes
WorkerIds == 0..(threads - 1)
WaitReturned == ctl.pc = "idle" /\ ctl.ret = "waited"
CheckReturnedTrue == ctl.pc = "idle" /\ ctl.ret = "true"

(* The worker whose stride reaches the pixel stored at byte offset 3*q:    *)
(* q = i + j*w is visited as p = i*h + j, by worker p mod threads.         *)
PixelOwner(q) ==
    ((q % buffer_width) * buffer_height + (q \div buffer_width)) % threads

(* C2: in a traceImage pass every store lands inside the w*h*3 buffer, no  *)
(* pixel is stored twice or by two workers, the worker that stores pixel   *)
(* p is p mod threads, and once the workers are through every one of the   *)
(* w*h pixels has been stored exactly once.                                *)
C2_StridePartition ==
    gh.kind = "trace" =>
        /\ ~gh.oob
        /\ PassPixels = 0..(buffer_width * buffer_height - 1)
        /\ Len(buffer) = buffer_width * buffer_height * 3
        /\ \A q \in PassPixels :
              /\ gh.writes[q] <= 1
              /\ gh.writers[q] \subseteq {PixelOwner(q)}
              /\ (NoLive => gh.writes[q] = 1)

(* C2 witness: a finished traceImage pass of a 2 x 2 image by two workers. *)
C2_Witness ==
    /\ gh.kind = "trace"
    /\ NoLive
    /\ threads = 2
    /\ buffer_width = 2
    /\ buffer_height = 2
    /\ \A q \in PassPixels : gh.writes[q] = 1

(* C3 (as amended): once waitRender has returned, every worker has exited; *)
(* after a traceImage pass the pixels stored are all w*h pixels, each      *)
(* once; after an aaImage pass each pixel was stored at most once.         *)
C3_WaitRenderCompletes ==
    WaitReturned =>
        /\ NoLive
        /\ \A k \in Handles : allThreads[k].joined
        /\ (gh.kind = "trace" => \A q \in PassPixels : gh.writes[q] = 1)
        /\ (gh.kind = "aa" => \A q \in PassPixels : gh.writes[q] <= 1)

(* C3 witness: waitRender has returned after a traceImage pass of two      *)
(* workers over more than one pixel.                                       *)
C3_Witness ==
    /\ WaitReturned
    /\ gh.kind = "trace"
    /\ Len(allThreads) >= 2
    /\ Cardinality(PassPixels) >= 2

(* C3 as stated: once waitRender has returned after a traceImage or an     *)
(* aaImage call, every worker has exited and the pixels stored during the  *)
(* pass are the full w*h pixel set.                                        *)
C3_Original ==
    WaitReturned =>
        /\ NoLive
        /\ (gh.kind \in {"trace", "aa"} =>
               \A q \in PassPixels : gh.writes[q] >= 1)

(* C4: checkRender returns true only from a finished-set that holds every *)
(* worker id in [0, threads) and leaves the set empty; it returns false    *)
(* only when some id is missing and leaves the set as it was.              *)
C4_CheckRender ==
    [][ (ctl.pc = "check" /\ ctl'.pc = "idle") =>
           IF WorkerIds \subseteq finishedThreads
           THEN ctl'.ret = "true" /\ finishedThreads' = {}
           ELSE ctl'.ret = "false" /\ finishedThreads' = finishedThreads ]_vars

(* C4 witness: checkRender has returned true for a pass of two workers. *)
C4_Witness ==
    /\ CheckReturnedTrue
    /\ threads = 2
    /\ gh.kind = "trace"
    /\ finishedThreads = {}

(* The bytes a traceImage pass leaves: tracePixel's store for each pixel. *)
TraceReference ==
    [k \in 1..(buffer_width * buffer_height * 3) |->
        LET q == (k - 1) \div 3
            c == ((k - 1) % 3) + 1
            i == q % buffer_width
            j == q \div buffer_width
        IN  QuantByte(trace(Setups[scene], i, buffer_width, j, buffer_height)[c], 1)]

(* The bytes aaImageThread leaves when one worker runs alone over buf. *)
RECURSIVE seqAA(_, _)
seqAA(buf, p) ==
    IF p >= buffer_width * buffer_height THEN buf
    ELSE seqAA(aaPixel(buf, p), p + 1)

(* C5: once the workers of a pass are through, the buffer is the same for  *)
(* every interleaving and every thread count: the bytes a single worker    *)
(* leaves, in the traceImage pass and in the aaImage pass.                 *)
C5_PassDeterministic ==
    NoLive =>
        /\ (gh.kind = "trace" => buffer = TraceReference)
        /\ (gh.kind = "aa" => buffer = seqAA(gh.start, 0))

(* The byte nearest to 255 * num / (One * den). *)
RoundByte(num, den) == (2 * ByteMax * num + One * den) \div (2 * One * den)

(* The pixels stored to in the current pass, with the colour handed over. *)
StoredPixels == {q \in PassPixels : gh.lastCol[q].den > 0}

(* C6 (as amended): the byte stored for a colour component c is 255 * c    *)
(* with its fraction cut off (the largest b with b <= 255 * c), in R, G, B *)
(* order at byte offset (i + j*w)*3, and lies in 0..255.                   *)
C6_QuantTruncates ==
    \A q \in StoredPixels : \A c \in Chan :
        LET b == buffer[3 * q + c]
            x == ByteMax * gh.lastCol[q].col[c]
            d == One * gh.lastCol[q].den
        IN  /\ b \in 0..255
            /\ b * d <= x
            /\ x < (b + 1) * d

(* C6 witness: a stored component whose scaled value has a fraction. *)
C6_Witness ==
    \E q \in StoredPixels : \E c \in Chan :
        /\ (ByteMax * gh.lastCol[q].col[c]) % (One * gh.lastCol[q].den) # 0
        /\ buffer[3 * q + c] > 0

(* C6 as stated: the byte stored for a colour component c is 255 * c       *)
(* rounded to the nearest integer.                                         *)
C6_Original ==
    \A q \in StoredPixels : \A c \in Chan :
        buffer[3 * q + c] = RoundByte(gh.lastCol[q].col[c], gh.lastCol[q].den)

(* C10: after waitRender has returned, or checkRender has returned true,   *)
(* the handle collection allThreads is empty.                              *)
C10_HandlesCleared ==
    (WaitReturned \/ CheckReturnedTrue) => allThreads = <<>>

----------------------------------------------------------------------------
(* Single calls of traceRay and trace (specification TraceSpec). *)

(* The driver at rest, for the specifications that do not render. *)
DriverAtRest ==
    /\ ui = [w |-> 1, h |-> 1, threads |-> 1]
    /\ buffer = <<>>
    /\ buffer_width = 0
    /\ buffer_height = 0
    /\ threads = 0
    /\ samples = 0
    /\ aaThresh = 0
    /\ bufferReady = FALSE
    /\ allThreads = <<>>
    /\ finishedThreads = {}
    /\ ctl = [pc |-> "idle", i |-> 0, ret |-> "none"]
    /\ passes = 0
    /\ gh = NewPass("none", <<>>, 0)

(* The weights a traceRay call is handed: (1,1,1) by trace, products of    *)
(* kr and kt by the recursion.                                             *)
Weights == {White, Half, Grey(One \div 4), <<0, One, 0>>, Black}

(* traceRay(r, thresh, depth, t) on the loaded scene. *)
traceRayCall ==
    \E r \in RayIds, th \in Weights, d \in (-2)..MaxTraceDepth :
        /\ tr' = [phase |-> "ray", r |-> r, thresh |-> th, depth |-> d,
                  res |-> traceRay(Setups[scene], r, th, d, 0)]
        /\ UNCHANGED <<scene, alerts, loadRet, kd>>
        /\ UNCHANGED driverVars

(* trace(x, y) for a window coordinate (xn / xd, yn / yd). *)
traceCall ==
    \E xd \in 1..2, yd \in 1..2, xn \in (-1)..2, yn \in (-1)..2 :
        /\ tr' = [phase |-> "pixel", r |-> RayThrough(Setups[scene], xn, xd, yn, yd),
                  thresh |-> White, depth |-> Setups[scene].depth,
                  res |-> [color |-> trace(Setups[scene], xn, xd, yn, yd)]]
        /\ UNCHANGED <<scene, alerts, loadRet, kd>>
        /\ UNCHANGED driverVars

TraceInit ==
    /\ scene \in SetupIds
    /\ alerts = <<>>
    /\ loadRet = [ret |-> "true", outcome |-> "parsed", calls |-> 1]
    /\ DriverAtRest
    /\ tr = IdleTr
    /\ kd = IdleKd

TraceNext == traceRayCall \/ traceCall

TraceSpec == TraceInit /\ [][TraceNext]_vars

TrSetup == Setups[scene]
TrSurface == TrSetup.rays[tr.r]
TrBackground == IF TrSetup.cubeMap THEN TrSurface.cube ELSE Black

(* C7 (as amended): a traceRay call with depth d >= 0 nests at most d+2    *)
(* activations of traceRay, of which at most d+1 reach scene->intersect    *)
(* (the innermost, with depth -1, returns at once); every call with        *)
(* depth < 0 returns (0,0,0) without intersecting the scene; and with      *)
(* depth 0 a ray that passes the threshold test gets the material's        *)
(* direct shade alone when it hits and the background when it misses       *)
(* (the cube map sample if enabled, else (0,0,0)); a ray that fails the    *)
(* threshold test gets (0,0,0).                                            *)
C7_DepthBound ==
    tr.phase = "ray" =>
        /\ (tr.depth >= 0 =>
               /\ tr.res.levels <= tr.depth + 2
               /\ tr.res.ilevels <= tr.depth + 1)
        /\ (tr.depth < 0 =>
               /\ tr.res.color = Black
               /\ tr.res.isects = 0
               /\ tr.res.levels = 1)
        /\ (tr.depth = 0 =>
               IF belowThreshold(TrSetup, tr.thresh)
               THEN tr.res.color = Black /\ tr.res.isects = 0
               ELSE /\ tr.res.isects = 1
                    /\ tr.res.color =
                          IF TrSurface.hit THEN TrSurface.shade ELSE TrBackground)

(* C7 witness: a depth-0 call with weight (1,1,1) hits a reflective        *)
(* surface, calls traceRay again with depth -1, and returns the shade.     *)
C7_Witness ==
    /\ tr.phase = "ray"
    /\ tr.depth = 0
    /\ tr.thresh = White
    /\ TrSurface.hit
    /\ TrSurface.refl
    /\ tr.res.levels = 2
    /\ tr.res.color = TrSurface.shade

(* C7 as stated: a call with depth d >= 0 nests at most d+1 levels of      *)
(* traceRay, a call with depth < 0 returns (0,0,0) without intersecting,   *)
(* and with max depth 0 a hit ray gets the direct shade alone and a        *)
(* missed ray the background.                                              *)
C7_Original ==
    tr.phase = "ray" =>
        /\ (tr.depth >= 0 => tr.res.levels <= tr.depth + 1)
        /\ (tr.depth < 0 => tr.res.color = Black /\ tr.res.isects = 0)
        /\ (tr.depth = 0 /\ tr.thresh = White =>
               tr.res.color =
                  IF TrSurface.hit THEN TrSurface.shade ELSE TrBackground)

----------------------------------------------------------------------------
(* RayTracer::loadScene (specification LoadSpec). *)

(* What can happen to the file: it cannot be opened; parseScene throws a   *)
(* SyntaxErrorException, a ParserException or a TextureMapException; or    *)
(* parseScene returns a scene (a setup) or no scene (NoScene).             *)
FailureKinds == {"unreadable", "syntax", "parser", "texture"}
Outcomes ==
    {[kind |-> k, parsed |-> NoScene] : k \in FailureKinds}
        \cup {[kind |-> "parsed", parsed |-> sc] : sc \in SetupIds \cup {NoScene}}

(* The message handed to traceUI->alert for a failure. *)
alertFor(o) ==
    CASE o = "unreadable" -> "Error: couldn't read scene file"
      [] o = "syntax" -> "formattedMessage"
      [] o = "parser" -> "Parser: fatal exception"
      [] o = "texture" -> "Texture mapping exception"

(* A faulty loadedScene:    the scene is released before parsing, so a       *)
(* failed parse leaves no scene.                                           *)
loadedSceneResetFirst(old, o) == o.parsed

(* The scene member after loadScene: scene.reset(parser.parseScene()) runs *)
(* only when the file opened and parseScene returned.                      *)
loadedScene(old, o) == IF o.kind \in FailureKinds THEN old ELSE o.parsed

loadScene ==
    \E o \in Outcomes :
        /\ loadRet.calls < MaxLoads
        /\ scene' = loadedScene(scene, o)
        /\ alerts' = IF o.kind \in FailureKinds
                     THEN Append(alerts, alertFor(o.kind))
                     ELSE alerts
        /\ loadRet' = [ret |-> IF o.kind \in FailureKinds THEN "false"
                               ELSE IF scene' # NoScene THEN "true" ELSE "false",
                       outcome |-> o.kind, calls |-> loadRet.calls + 1]
        /\ UNCHANGED <<tr, kd>>
        /\ UNCHANGED driverVars

LoadInit ==
    /\ scene = NoScene
    /\ alerts = <<>>
    /\ loadRet = [ret |-> "none", outcome |-> "none", calls |-> 0]
    /\ DriverAtRest
    /\ tr = IdleTr
    /\ kd = IdleKd

LoadNext == loadScene

LoadSpec == LoadInit /\ [][LoadNext]_vars

AlertMessages ==
    {"Error: couldn't read scene file", "formattedMessage",
     "Parser: fatal exception", "Texture mapping exception"}

(* C8: a loadScene call that fails in one of the four ways sends exactly   *)
(* one message to the alert sink, returns false and leaves the scene as    *)
(* it was; a call returns true only with a scene loaded and no alert.      *)
C8_LoadFailurePolicy ==
    [][ loadRet'.calls = loadRet.calls + 1 =>
          /\ (loadRet'.outcome \in FailureKinds =>
                 /\ loadRet'.ret = "false"
                 /\ scene' = scene
                 /\ \E m \in AlertMessages : alerts' = Append(alerts, m))
          /\ (loadRet'.ret = "true" =>
                 /\ scene' # NoScene
                 /\ loadRet'.outcome = "parsed"
                 /\ alerts' = alerts) ]_vars

(* C8 witness: a texture failure after a successful load: the alert was    *)
(* sent, false returned, and the earlier scene is still the current one.   *)
C8_Witness ==
    /\ loadRet.outcome = "texture"
    /\ loadRet.ret = "false"
    /\ scene # NoScene
    /\ Len(alerts) = 1
    /\ alerts[1] = "Texture mapping exception"

----------------------------------------------------------------------------
(* scene/kdTree.h.  Coordinates are in half units (an even number is an    *)
(* integer coordinate); a ray direction has components in {-1, 0, 1}, so   *)
(* that every slab distance is again in half units.                        *)

Axes == 1..3

(* The geometries a scene can hold, each with its bounding box: two cubes  *)
(* apart on the first axis, a cube between half-integer planes, and a      *)
(* flat square.                                                            *)
Boxes ==
    << [min |-> <<0, 0, 0>>, max |-> <<4, 4, 4>>],
       [min |-> <<12, 0, 0>>, max |-> <<16, 4, 4>>],
       [min |-> <<5, 0, 0>>, max |-> <<9, 4, 4>>],
       [min |-> <<8, 0, 0>>, max |-> <<8, 4, 4>>] >>

ObjIds == DOMAIN Boxes

(* The rays shot at the scene. *)
Rays ==
    { [o |-> <<-4, 2, 2>>, d |-> <<1, 0, 0>>],
      [o |-> <<20, 2, 2>>, d |-> <<-1, 0, 0>>],
      [o |-> <<2, 2, -4>>, d |-> <<0, 0, 1>>],
      [o |-> <<14, -2, 2>>, d |-> <<0, 1, 0>>],
      [o |-> <<-4, -2, 2>>, d |-> <<1, 1, 0>>],
      [o |-> <<7, 2, 2>>, d |-> <<1, 0, 0>>],
      [o |-> <<2, 8, 2>>, d |-> <<1, 0, 0>>] }

(* The object lists of a scene: up to MaxObjs different geometries. *)
RECURSIVE ObjListsOfLen(_)
ObjListsOfLen(n) ==
    IF n = 0 THEN {<<>>}
    ELSE {Append(l, x) : l \in ObjListsOfLen(n - 1), x \in ObjIds}
ObjLists ==
    {l \in UNION {ObjListsOfLen(n) : n \in 0..MaxObjs} :
        \A a \in DOMAIN l, b \in DOMAIN l : a # b => l[a] # l[b]}

(* ray::at(t)[axis] *)
rayAt(r, t, axis) == r.o[axis] + t * r.d[axis]

(* BoundingBox::intersect(r, tMin, tMax), the slab method: the interval of *)
(* the ray inside the box; on an axis the ray is parallel to, the origin   *)
(* must lie between the slabs.  tMin and tMax are written in any case.     *)
bboxIntersect(box, r) ==
    LET moving == {a \in Axes : r.d[a] # 0}
        t1(a) == (box.min[a] - r.o[a]) * r.d[a]
        t2(a) == (box.max[a] - r.o[a]) * r.d[a]
        lo(a) == Min2(t1(a), t2(a))
        hi(a) == Max2(t1(a), t2(a))
        tmin == CHOOSE x \in {lo(a) : a \in moving} :
                   \A b \in moving : lo(b) <= x
        tmax == CHOOSE x \in {hi(a) : a \in moving} :
                   \A b \in moving : hi(b) >= x
        inside == \A a \in Axes \ moving :
                     box.min[a] <= r.o[a] /\ r.o[a] <= box.max[a]
    IN  [hit |-> inside /\ tmin <= tmax /\ tmax >= 0, tmin |-> tmin, tmax |-> tmax]

(* BoundingBox::area(): 2 (ex ey + ey ez + ex ez) *)
bboxArea(box) ==
    LET e == [a \in Axes |-> box.max[a] - box.min[a]]
    IN  2 * (e[1] * e[2] + e[2] * e[3] + e[1] * e[3])

(* Geometry::intersect(r, i) for a box-shaped geometry: the nearest        *)
(* crossing of its surface at a positive ray parameter.                    *)
objIntersect(obj, r) ==
    LET b == bboxIntersect(Boxes[obj], r)
        t == IF b.tmin > 0 THEN b.tmin ELSE b.tmax
    IN  [hit |-> b.hit /\ t > 0, t |-> t, obj |-> obj]

(* isect i; before any hit: no object, and the t LeafNode sets (1e13). *)
FarT == 1000000
NoIsect == [t |-> FarT, obj |-> 0]

(* The linear scan over all geometries (Scene::intersect without the       *)
(* tree): the first among the hits of smallest t.                          *)
RECURSIVE linearScan(_, _, _, _)
linearScan(objs, r, k, best) ==
    IF k > Len(objs) THEN best
    ELSE LET cur == objIntersect(objs[k], r)
         IN  linearScan(objs, r, k + 1,
                IF cur.hit /\ (~best.found \/ cur.t < best.i.t)
                THEN [found |-> TRUE, i |-> [t |-> cur.t, obj |-> cur.obj]]
                ELSE best)

linearIntersect(objs, r) ==
    linearScan(objs, r, 1, [found |-> FALSE, i |-> NoIsect])


(* (int) of a double position in half units: the fraction is cut towards 0. *)
truncInt(p) == IF p >= 0 THEN (p \div 2) * 2 ELSE 0 - (((0 - p) \div 2) * 2)

(* SplitNode(int a, int p, ...): the position is passed through an int. *)
SplitNode(axis, p, bbox, l, r) ==
    [type |-> "split", axis |-> axis, pos |-> truncInt(p), bbox |-> bbox,
     left |-> l, right |-> r]

LeafNode(objList) == [type |-> "leaf", objList |-> objList]

(* kdTree::countP: the geometries a plane puts on each side of it. *)
countLeft(objList, pl) ==
    Cardinality({k \in DOMAIN objList : Boxes[objList[k]].min[pl.axis] < pl.position})
countRight(objList, pl) ==
    Cardinality({k \in DOMAIN objList : Boxes[objList[k]].max[pl.axis] > pl.position})

leftBBoxOf(bbox, pl) ==
    [min |-> bbox.min,
     max |-> [a \in Axes |-> IF a = pl.axis THEN pl.position ELSE bbox.max[a]]]
rightBBoxOf(bbox, pl) ==
    [min |-> [a \in Axes |-> IF a = pl.axis THEN pl.position ELSE bbox.min[a]],
     max |-> bbox.max]

(* The candidate planes in the order findBestPlane pushes them: axis by    *)
(* axis, geometry by geometry, its box's minimum and then its maximum.     *)
RECURSIVE planeList(_, _, _)
planeList(objList, axis, k) ==
    IF axis > 3 THEN <<>>
    ELSE IF k > Len(objList) THEN planeList(objList, axis + 1, 1)
    ELSE << [axis |-> axis, position |-> Boxes[objList[k]].min[axis]],
            [axis |-> axis, position |-> Boxes[objList[k]].max[axis]] >>
         \o planeList(objList, axis, k + 1)

(* The numerator of s = (leftCount * leftArea + rightCount * rightArea) /  *)
(* bbox.area(); the divisor is the same for every plane of one call.       *)
planeCost(objList, bbox, pl) ==
    countLeft(objList, pl) * bboxArea(leftBBoxOf(bbox, pl))
    + countRight(objList, pl) * bboxArea(rightBBoxOf(bbox, pl))

(* s < minS with minS = 1e100 at first, as the doubles compare: over a     *)
(* positive area the smaller numerator, over a negative one the larger,    *)
(* over a zero area only minus infinity is below anything.                 *)
costLess(n, have, bestN, area) ==
    IF ~have THEN area # 0 \/ n < 0
    ELSE IF area > 0 THEN n < bestN
    ELSE IF area < 0 THEN n > bestN
    ELSE FALSE

(* kdTree::findBestPlane: the first plane of strictly smallest cost; the   *)
(* returned plane is never assigned when no plane's cost is below 1e100.   *)
RECURSIVE bestPlaneFrom(_, _, _, _, _)
bestPlaneFrom(planes, k, objList, bbox, best) ==
    IF k > Len(planes) THEN best
    ELSE LET n == planeCost(objList, bbox, planes[k])
         IN  bestPlaneFrom(planes, k + 1, objList, bbox,
                IF costLess(n, best.have, best.cost, bboxArea(bbox))
                THEN [have |-> TRUE, cost |-> n, plane |-> planes[k]]
                ELSE best)

findBestPlane(objList, bbox) ==
    bestPlaneFrom(planeList(objList, 1, 1), 1, objList, bbox,
                  [have |-> FALSE, cost |-> 0, plane |-> [axis |-> 0, position |-> 0]])

(* The routing of buildTreeHelper: a geometry goes left when its box       *)
(* starts before the plane, right when it ends after it, and right when    *)
(* its box lies in the plane (the length of a normal is never negative).   *)
RECURSIVE routeLeft(_, _, _)
routeLeft(objList, pl, k) ==
    IF k > Len(objList) THEN <<>>
    ELSE (IF Boxes[objList[k]].min[pl.axis] < pl.position
          THEN <<objList[k]>> ELSE <<>>) \o routeLeft(objList, pl, k + 1)

RECURSIVE routeRight(_, _, _)
routeRight(objList, pl, k) ==
    IF k > Len(objList) THEN <<>>
    ELSE LET b == Boxes[objList[k]]
         IN  (IF b.max[pl.axis] > pl.position THEN <<objList[k]>> ELSE <<>>)
             \o (IF pl.position = b.max[pl.axis] /\ pl.position = b.min[pl.axis]
                 THEN <<objList[k]>> ELSE <<>>)
             \o routeRight(objList, pl, k + 1)

(* ++depth == depthLimit *)
depthCap(depth, depthLimit) == depth + 1 = depthLimit

(* kdTree::buildTreeHelper.  calls counts the nested calls: a build that   *)
(* nests deeper than MaxBuildDepth is cut off and marked.                  *)
RECURSIVE buildTreeHelper(_, _, _, _, _, _)
buildTreeHelper(objList, bbox, depthLimit, leafSize, depth, calls) ==
    IF calls > MaxBuildDepth THEN [type |-> "unfinished"]
    ELSE IF Len(objList) <= leafSize \/ depthCap(depth, depthLimit)
    THEN LeafNode(objList)
    ELSE LET best == findBestPlane(objList, bbox)
             pl == best.plane
             leftList == routeLeft(objList, pl, 1)
             rightList == routeRight(objList, pl, 1)
         IN  IF ~best.have THEN [type |-> "undefined"]
             ELSE IF Len(rightList) = 0 \/ Len(leftList) = 0
             THEN LeafNode(objList)
             ELSE SplitNode(pl.axis, pl.position, bbox,
                    buildTreeHelper(leftList, leftBBoxOf(bbox, pl), depthLimit,
                                    leafSize, depth + 1, calls + 1),
                    buildTreeHelper(rightList, rightBBoxOf(bbox, pl), depthLimit,
                                    leafSize, depth + 1, calls + 1))

(* The scene's bounding box handed to buildTree: the hull of the boxes. *)
sceneBounds(objList) ==
    [min |-> [a \in Axes |-> CHOOSE x \in {Boxes[objList[k]].min[a] : k \in DOMAIN objList} :
                  \A k \in DOMAIN objList : x <= Boxes[objList[k]].min[a]],
     max |-> [a \in Axes |-> CHOOSE x \in {Boxes[objList[k]].max[a] : k \in DOMAIN objList} :
                  \A k \in DOMAIN objList : x >= Boxes[objList[k]].max[a]]]

(* kdTree::buildTree *)
buildTree(objList, bbox, depthLimit, leafSize) ==
    buildTreeHelper(objList, bbox, depthLimit, leafSize, 0, 0)


(* The depth of a tree: the split nodes on its longest root-to-leaf path. *)
RECURSIVE treeDepth(_)
treeDepth(n) ==
    IF n.type = "split" THEN 1 + Max2(treeDepth(n.left), treeDepth(n.right)) ELSE 0

(* pos > p and pos < p against a ray position p that carries the +1e-6     *)
(* bias when the ray is parallel to the split axis.                        *)
posAbove(pos, p, biased) == pos > p
posBelow(pos, p, biased) == IF biased THEN pos <= p ELSE pos < p

(* LeafNode::findIntersection: i.setT(1e13), then every geometry in turn;  *)
(* t_min and t_max are overwritten by each geometry's own box.             *)
RECURSIVE leafScan(_, _, _, _)
leafScan(objList, r, k, st) ==
    IF k > Len(objList) THEN st
    ELSE LET b == bboxIntersect(Boxes[objList[k]], r)
             curr == objIntersect(objList[k], r)
             keep == curr.hit /\ curr.t < st.i.t /\ curr.t >= b.tmin /\ curr.t <= b.tmax
         IN  leafScan(objList, r, k + 1,
                [found |-> st.found \/ keep,
                 i |-> IF keep THEN [t |-> curr.t, obj |-> curr.obj] ELSE st.i,
                 tmin |-> b.tmin, tmax |-> b.tmax])

(* The order in which a split node visits its children. *)
visitBoth(n, r, tmin, tmax) ==
    LET biased == r.d[n.axis] = 0
        pos_min == rayAt(r, tmin, n.axis)
        pos_max == rayAt(r, tmax, n.axis)
    IN  IF posAbove(n.pos, pos_min, biased) /\ posAbove(n.pos, pos_max, biased) THEN "left"
        ELSE IF posBelow(n.pos, pos_min, biased) /\ posBelow(n.pos, pos_max, biased) THEN "right"
        ELSE "both"

(* SplitNode::findIntersection and LeafNode::findIntersection; i, t_min    *)
(* and t_max are references handed on from call to call.                   *)
RECURSIVE findIntersection(_, _, _, _, _)
findIntersection(n, r, i, tmin, tmax) ==
    IF n.type = "leaf"
    THEN leafScan(n.objList, r, 1,
            [found |-> FALSE, i |-> [i EXCEPT !.t = FarT], tmin |-> tmin, tmax |-> tmax])
    ELSE IF n.type = "split"
    THEN LET b == bboxIntersect(n.bbox, r)
             side == visitBoth(n, r, b.tmin, b.tmax)
             l == findIntersection(n.left, r, i, b.tmin, b.tmax)
         IN  IF side = "left" THEN l
             ELSE IF side = "right" THEN findIntersection(n.right, r, i, b.tmin, b.tmax)
             ELSE IF l.found THEN l
             ELSE findIntersection(n.right, r, l.i, l.tmin, l.tmax)
    ELSE [found |-> FALSE, i |-> i, tmin |-> tmin, tmax |-> tmax]

(* KdTree::intersect *)
kdIntersect(tree, r) == findIntersection(tree, r, NoIsect, 0, 0)

----------------------------------------------------------------------------
(* The specification of the KD tree: a scene is set up with a tree built  *)
(* over its geometries, and rays are intersected with it.                  *)

NoRay == [o |-> <<0, 0, 0>>, d |-> <<0, 0, 0>>]

(* RayTracer::traceSetup with kdSwitch on: scene->buildTree(maxDepth, leafSize) *)
kdBuild ==
    /\ \E objs \in ObjLists \ {<<>>}, depthLimit \in 0..MaxDepthLimit, leafSize \in 0..MaxLeafSize :
          kd' = [phase |-> "built", objs |-> objs, depthLimit |-> depthLimit,
                 leafSize |-> leafSize,
                 tree |-> buildTree(objs, sceneBounds(objs), depthLimit, leafSize),
                 ray |-> NoRay,
                 kdHit |-> [found |-> FALSE, i |-> NoIsect],
                 linHit |-> [found |-> FALSE, i |-> NoIsect]]
    /\ UNCHANGED <<scene, driverVars, loadVars, tr>>

(* Scene::intersect for one ray, through the tree and by the linear scan. *)
kdTrace ==
    /\ kd.phase # "idle"
    /\ kd.tree.type # "unfinished"
    /\ \E r \in Rays :
          LET k == kdIntersect(kd.tree, r)
          IN  kd' = [kd EXCEPT !.phase = "traced", !.ray = r,
                        !.kdHit = [found |-> k.found, i |-> k.i],
                        !.linHit = linearIntersect(kd.objs, r)]
    /\ UNCHANGED <<scene, driverVars, loadVars, tr>>

(* A scene is loaded (which entry of the catalogue plays no part here) and *)
(* no tree is built yet.                                                    *)
KdInit ==
    /\ scene = 1
    /\ alerts = <<>>
    /\ loadRet = [ret |-> "true", outcome |-> "parsed", calls |-> 1]
    /\ DriverAtRest
    /\ tr = IdleTr
    /\ kd = IdleKd

KdNext == kdBuild \/ kdTrace

KdSpec == KdInit /\ [][KdNext]_vars


(* C1: KD equivalence.  For every scene and every ray, the traversal of   *)
(* the tree built over the scene reports a hit exactly when the linear    *)
(* scan over all geometries reports one, and then the same nearest hit:   *)
(* the same t and the same object.                                        *)
C1_KdEquivalence ==
    kd.phase = "traced" =>
        /\ kd.kdHit.found = kd.linHit.found
        /\ kd.linHit.found =>
              /\ kd.kdHit.i.t = kd.linHit.i.t
              /\ kd.kdHit.i.obj = kd.linHit.i.obj

(* C9: KD build depth cap.  For every object list, every leafSize >= 0    *)
(* and every depthLimit >= 0 the build terminates and the depth of the    *)
(* tree (the split nodes on any root-to-leaf path) is at most depthLimit. *)
C9_DepthCap ==
    kd.phase # "idle" =>
        /\ kd.tree.type # "unfinished"
        /\ treeDepth(kd.tree) <= kd.depthLimit
        /\ Len(kd.objs) <= kd.leafSize => kd.tree.type = "leaf"


----------------------------------------------------------------------------
(* Progress polling: the UI starts passes and polls checkRender, never    *)
(* calling waitRender; the worker threads are scheduled fairly and the     *)
(* UI keeps polling.                                                       *)

workerStep ==
    \E k \in Handles : tracePixelStep(k) \/ aaPixelStep(k) \/ workerFinish(k)

pollStep == checkRenderCall \/ checkRenderLoop \/ checkRenderDone

PollNext ==
    \/ traceImage
    \/ aaImage
    \/ workerStep
    \/ pollStep

(* The scenes of the polling runs: with an anti-aliasing pass (samples 1) *)
(* and without one (samples 0); the colours play no part in the protocol.  *)
PollScenes == {s \in SetupIds : Setups[s].samples <= 1}

PollInit ==
    /\ Init
    /\ scene \in PollScenes

PollSpec ==
    /\ PollInit
    /\ [][PollNext]_vars
    /\ WF_vars(workerStep)
    /\ WF_vars(pollStep)

(* A pass with workers has just been started: the controller is back from *)
(* traceImage or aaImage and has not called checkRender since.             *)
PassStarted ==
    /\ ctl.pc = "idle"
    /\ ctl.ret = "none"
    /\ \E k \in Handles : Live(k)

(* A step that starts a pass leaves the controller idle and every new     *)
(* worker before its first pixel; the workers already there are untouched. *)
StartReturnsAtOnce ==
    passes' = passes + 1 =>
        /\ ctl'.pc = "idle"
        /\ \A k \in DOMAIN allThreads' :
              IF k \in Handles THEN allThreads'[k] = allThreads[k]
              ELSE /\ allThreads'[k].st = "run"
                   /\ allThreads'[k].p = allThreads'[k].id

(* C11: progress polling liveness.  traceImage and aaImage return without *)
(* waiting for any worker step, and once a pass with workers has been      *)
(* started (traceImage with threads >= 1, aaImage with samples > 0), with  *)
(* fair workers and a controller that keeps calling checkRender and never  *)
(* waitRender, a call of checkRender eventually returns true.              *)
C11_PollingLiveness ==
    /\ [][StartReturnsAtOnce]_vars
    /\ PassStarted ~> CheckReturnedTrue

(* An anti-aliasing pass with workers was started, its workers ran to     *)
(* their end and checkRender returned true.                                *)
C11_Witness ==
    /\ CheckReturnedTrue
    /\ gh.kind = "aa"
    /\ Handles # {}
    /\ NoLive
    /\ \E k \in Handles : allThreads[k].kind = "aa"


(* C12: checkRender never reports completion early.  Over any sequence of *)
(* traceImage, aaImage, checkRender and waitRender calls, whenever         *)
(* checkRender has returned true no worker of the pass started last is     *)
(* still running; ids left in finishedThreads by an undrained earlier pass *)
(* do not make it return true while the new workers run.                   *)
C12_NoEarlyCompletion == CheckReturnedTrue => NoLive

====
